---- MODULE Spec2Model ----
(***************************************************************************)
(* A model of seleniumkit/core.py: the helper functions and the part of    *)
(* the browser session they read and write.                                *)
(*                                                                         *)
(* The session is the driver's state: the elements of the page (absent,    *)
(* present but hidden, or visible, and the value each holds), the window   *)
(* size and the page's scroll size, the open windows with the active one,  *)
(* and the native alert.  A helper that locates an element waits in        *)
(* WebDriverWait.until: the wait is a loop of polls, and the page may      *)
(* change between two polls.  Every other helper is one step.              *)
(*                                                                         *)
(* DomSpec follows the helpers that work on the page and the window size,  *)
(* SessionSpec those that work on windows and alerts; FindSpec follows     *)
(* find_element alone, with the caller's thread running.                   *)
(***************************************************************************)
EXTENDS Integers, Sequences, FiniteSets, TLC

VARIABLES dom, val, winSize, pageSize, windows, active, alert, pending, last

vars == <<dom, val, winSize, pageSize, windows, active, alert, pending, last>>

---------------------------------------------------------------------------
(* Bounds and inputs *)

\* Longest text typed into an element or held by it.
MaxLen == 1
\* Largest timeout, in seconds, passed to find_element explicitly.
MaxTimeout == 1
\* Most windows open at once.
MaxWindows == 2

\* find_element's default timeout, in seconds (the wrappers always use it).
DefaultTimeout == 10
\* The longest wait the model follows: past every timeout in use.
MaxWait == DefaultTimeout + 2

Alphabet == {"a", "b"}
Texts == UNION {[1..k -> Alphabet] : k \in 0..MaxLen}
Keys == Texts \ {<<>>}

\* Selectors are (by, value) pairs.  The first names a text input, the
\* second a dropdown (a select element, which is not user-editable) with
\* the options Options, of which one is selected.
Selectors == {<<"id", "q">>, <<"css selector", "#color">>}
Editable == {<<"id", "q">>}
Dropdowns == {<<"css selector", "#color">>}
Options == {<<"a">>, <<"b">>}
\* The option texts select_from_dropdown is called with: one is no option.
OptionTexts == Options \cup {<<"z">>}

\* The timeouts find_element is called with: small ones, and the default.
Timeouts == (0..MaxTimeout) \cup {DefaultTimeout}
WindowSizes == {[width |-> 800, height |-> 600]}
PageSizes == {[width |-> 800, height |-> 600], [width |-> 1200, height |-> 3000]}
Handles == {"w1", "w2", "w3"}
AlertTexts == {"Saved", "Delete?"}
Indexes == (0 - (MaxWindows + 1))..(MaxWindows + 1)
FilePath == "shot.png"

NoAlert == "<none>"
NoArg == "-"
None == "None"
NoMsg == <<>>

---------------------------------------------------------------------------
(* The caller: the call in progress and the call that has just returned *)

Idle == [op |-> "idle"]
NoCall == [op |-> "none"]

\* The driver's state as a caller could read it.
Snapshot ==
  [dom |-> dom, val |-> val, winSize |-> winSize, pageSize |-> pageSize,
   windows |-> windows, active |-> active, alert |-> alert]

\* The outcome of a call: status is "ok" (returned normally) or the name of
\* the exception that reached the caller; log lists the driver commands the
\* call issued, in order; pre is the driver's state when the call began
\* (for a waiting call: at its last poll).
\* raised is the exception raised inside the call's try block ("none" when
\* none was), whether or not it reached the caller; printed holds the lines
\* the call printed; elem is the element the call located through
\* find_element (None when it located none); waited tells how the wait went.
Call(op, sel, arg, status, raised, ret, msg, log, printed, elem, waited, pre) ==
  [op |-> op, sel |-> sel, arg |-> arg, status |-> status, raised |-> raised,
   ret |-> ret, msg |-> msg, log |-> log, printed |-> printed, elem |-> elem,
   waited |-> waited, pre |-> pre]

Raised(status) == IF status = "ok" THEN "none" ELSE status

Wait(op, sel, arg, timeout) ==
  [op |-> op, sel |-> sel, arg |-> arg, timeout |-> timeout, elapsed |-> 0,
   hiddenAll |-> TRUE]

Init ==
  /\ dom = [s \in Selectors |-> "absent"]
  /\ val = [s \in Selectors |-> <<>>]
  /\ winSize \in WindowSizes
  /\ pageSize \in PageSizes
  /\ windows = <<"w1">>
  /\ active = "w1"
  /\ alert = NoAlert
  /\ pending = Idle
  /\ last = NoCall

---------------------------------------------------------------------------
(* The page changes under the caller: scripts add, remove, show and hide  *)
(* elements at any time, also between two polls of a wait.                *)

ElementAdded(sel, v, shown) ==
  /\ dom[sel] = "absent"
  /\ dom' = [dom EXCEPT ![sel] = IF shown THEN "visible" ELSE "hidden"]
  /\ v \in (IF sel \in Editable THEN Texts ELSE Options)
  /\ val' = [val EXCEPT ![sel] = v]
  /\ last' = NoCall
  /\ UNCHANGED <<winSize, pageSize, windows, active, alert, pending>>

ElementRemoved(sel) ==
  /\ dom[sel] # "absent"
  /\ dom' = [dom EXCEPT ![sel] = "absent"]
  /\ val' = [val EXCEPT ![sel] = <<>>]
  /\ last' = NoCall
  /\ UNCHANGED <<winSize, pageSize, windows, active, alert, pending>>

ElementToggled(sel) ==
  /\ dom[sel] # "absent"
  /\ dom' = [dom EXCEPT ![sel] = IF @ = "hidden" THEN "visible" ELSE "hidden"]
  /\ last' = NoCall
  /\ UNCHANGED <<val, winSize, pageSize, windows, active, alert, pending>>

---------------------------------------------------------------------------
(* find_element: WebDriverWait(driver, timeout).until(visibility...)      *)

\* Variant: presence taken for display.
PresentIfDisplayed(d, sel) == d[sel] = "visible"

\* driver.find_element(by, value) finds an element: it is in the page.
Present(d, sel) == d[sel] # "absent"

\* Variant: presence_of_element_located in place of visibility.
DisplayedIfPresent(d, sel) == d[sel] # "absent"

\* EC.visibility_of_element_located((by, value)): found and displayed.
Displayed(d, sel) == Present(d, sel) /\ d[sel] = "visible"

\* Variant: a wait without a deadline.
ExpiredNever(elapsed, timeout) == FALSE

\* The wait's deadline has passed.  The clock of the model ticks once per
\* poll round, and the timeout counts the same ticks.
Expired(elapsed, timeout) == elapsed > timeout

\* error_msg of the TimeoutException find_element raises.
TimeoutMsg(timeout, sel) ==
  <<"Timeout: Element not visible after ", ToString(timeout),
    " seconds for selector (", sel[1], ", ", sel[2], ")">>

\* What the try block of find_element can do at one poll of the wait p:
\* return the element, let the wait expire, or fail in the driver with
\* another WebDriverException.  NoSuchElementException never leaves the
\* wait (until() ignores it and polls again).
WaitOutcomes(p) ==
  (IF Displayed(dom, p.sel) THEN {"located"}
   ELSE IF Expired(p.elapsed, p.timeout) THEN {"timeout"} ELSE {})
  \cup {"error"}

\* What find_element hands to its caller for an outcome.
FindElementResult(p, outcome) ==
  CASE outcome = "located" ->
         [status |-> "ok", elem |-> p.sel, msg |-> NoMsg, printed |-> <<>>]
    [] outcome = "timeout" ->
         [status |-> "TimeoutException", elem |-> None,
          msg |-> TimeoutMsg(p.timeout, p.sel),
          printed |-> <<TimeoutMsg(p.timeout, p.sel)>>]
    [] outcome = "error" ->
         [status |-> "WebDriverException", elem |-> None, msg |-> NoMsg,
          printed |-> <<>>]

\* How the wait went, as of the poll that ends it.
Waited(p) ==
  [elapsed |-> p.elapsed, timeout |-> p.timeout,
   hiddenAll |-> p.hiddenAll /\ dom[p.sel] = "hidden"]

FindElement(sel, timeout) ==
  /\ pending = Idle
  /\ pending' = Wait("find_element", sel, NoArg, timeout)
  /\ last' = NoCall
  /\ UNCHANGED <<dom, val, winSize, pageSize, windows, active, alert>>

\* One round of until(): the element is not displayed, the deadline has not
\* passed, the wait sleeps.
WaitSleep ==
  /\ pending # Idle
  /\ ~Displayed(dom, pending.sel)
  /\ ~Expired(pending.elapsed, pending.timeout)
  /\ pending.elapsed < MaxWait
  /\ pending' = [pending EXCEPT !.elapsed = @ + 1,
                                !.hiddenAll = @ /\ dom[pending.sel] = "hidden"]
  /\ UNCHANGED <<dom, val, winSize, pageSize, windows, active, alert, last>>

FindElementReturns(outcome) ==
  /\ pending # Idle
  /\ pending.op = "find_element"
  /\ outcome \in WaitOutcomes(pending)
  /\ LET r == FindElementResult(pending, outcome) IN
     last' = Call("find_element", pending.sel, NoArg, r.status, Raised(r.status),
                  r.elem, r.msg,
                  <<>>, r.printed, r.elem, Waited(pending), Snapshot)
  /\ pending' = Idle
  /\ UNCHANGED <<dom, val, winSize, pageSize, windows, active, alert>>

---------------------------------------------------------------------------
(* input_text *)

\* Variant: input_text without the clear.
ClearNothing(v) == v

\* element.clear()
Clear(v) == <<>>

\* element.send_keys(text): the keys are appended to what the element holds.
SendKeys(v, text) == v \o text

InputTextPrinted == <<"An error occurred while inputting text into the element">>

\* The body of input_text once find_element has returned the element holding
\* v: clear, then send_keys; failAt names the step at which the driver fails
\* ("none": at no step).  An element that is not user-editable makes clear()
\* fail.  Every failure is printed and raised again.
InputTextBody(v, editable, text, failAt) ==
  IF ~editable THEN
    [val |-> v, status |-> "InvalidElementStateException", log |-> <<"clear">>,
     printed |-> InputTextPrinted]
  ELSE IF failAt = "clear" THEN
    [val |-> v, status |-> "WebDriverException", log |-> <<"clear">>,
     printed |-> InputTextPrinted]
  ELSE IF failAt = "send_keys" THEN
    [val |-> Clear(v), status |-> "WebDriverException",
     log |-> <<"clear", "send_keys">>, printed |-> InputTextPrinted]
  ELSE
    [val |-> SendKeys(Clear(v), text), status |-> "ok",
     log |-> <<"clear", "send_keys">>, printed |-> <<>>]

InputText(sel, text) ==
  /\ pending = Idle
  /\ pending' = Wait("input_text", sel, text, DefaultTimeout)
  /\ last' = NoCall
  /\ UNCHANGED <<dom, val, winSize, pageSize, windows, active, alert>>

InputTextReturns(outcome, failAt) ==
  /\ pending # Idle
  /\ pending.op = "input_text"
  /\ outcome \in WaitOutcomes(pending)
  /\ LET p == pending
         r == FindElementResult(p, outcome)
         b == InputTextBody(val[p.sel], p.sel \in Editable, p.arg, failAt)
     IN IF r.status # "ok"
        THEN /\ failAt = "none"
             /\ last' = Call("input_text", p.sel, p.arg, r.status, r.status,
                             None, r.msg,
                             <<>>, r.printed \o InputTextPrinted, None,
                             Waited(p), Snapshot)
             /\ val' = val
        ELSE /\ last' = Call("input_text", p.sel, p.arg, b.status,
                             Raised(b.status), None, NoMsg,
                             b.log, b.printed, r.elem, Waited(p), Snapshot)
             /\ val' = [val EXCEPT ![p.sel] = b.val]
  /\ pending' = Idle
  /\ UNCHANGED <<dom, winSize, pageSize, windows, active, alert>>

---------------------------------------------------------------------------
(* select_from_dropdown *)

SelectPrinted == <<"An error occurred while selecting from dropdown">>

\* The body of select_from_dropdown once find_element has returned the
\* element whose selected option is v: Select(element) fails on an element
\* that is no select, select_by_visible_text on a text that is no option;
\* fail: the driver fails while selecting.  Every failure is printed and
\* raised again.
SelectBody(v, isSelect, option_text, fail) ==
  IF ~isSelect THEN
    [val |-> v, status |-> "UnexpectedTagNameException", log |-> <<"Select">>,
     printed |-> SelectPrinted]
  ELSE IF option_text \notin Options THEN
    [val |-> v, status |-> "NoSuchElementException",
     log |-> <<"Select", "select_by_visible_text">>, printed |-> SelectPrinted]
  ELSE IF fail THEN
    [val |-> v, status |-> "WebDriverException",
     log |-> <<"Select", "select_by_visible_text">>, printed |-> SelectPrinted]
  ELSE
    [val |-> option_text, status |-> "ok",
     log |-> <<"Select", "select_by_visible_text">>, printed |-> <<>>]

SelectFromDropdown(sel, option_text) ==
  /\ pending = Idle
  /\ pending' = Wait("select_from_dropdown", sel, option_text, DefaultTimeout)
  /\ last' = NoCall
  /\ UNCHANGED <<dom, val, winSize, pageSize, windows, active, alert>>

SelectFromDropdownReturns(outcome, fail) ==
  /\ pending # Idle
  /\ pending.op = "select_from_dropdown"
  /\ outcome \in WaitOutcomes(pending)
  /\ LET p == pending
         r == FindElementResult(p, outcome)
         b == SelectBody(val[p.sel], p.sel \in Dropdowns, p.arg, fail)
     IN IF r.status # "ok"
        THEN /\ ~fail
             /\ last' = Call("select_from_dropdown", p.sel, p.arg, r.status,
                             r.status, None, r.msg, <<>>,
                             r.printed \o SelectPrinted, None, Waited(p),
                             Snapshot)
             /\ val' = val
        ELSE /\ last' = Call("select_from_dropdown", p.sel, p.arg, b.status,
                             Raised(b.status), None, NoMsg, b.log, b.printed,
                             r.elem, Waited(p), Snapshot)
             /\ val' = [val EXCEPT ![p.sel] = b.val]
  /\ pending' = Idle
  /\ UNCHANGED <<dom, winSize, pageSize, windows, active, alert>>

---------------------------------------------------------------------------
(* take_element_screenshot *)

ScreenshotPrinted == <<"An error occurred while taking the screenshot.">>

\* What reaches the caller of take_element_screenshot when its try block
\* raised: NoSuchElementException and every other WebDriverException are
\* printed, none is raised again.
ElementScreenshotStatus(raised) == "ok"

TakeElementScreenshot(sel) ==
  /\ pending = Idle
  /\ pending' = Wait("take_element_screenshot", sel, FilePath, DefaultTimeout)
  /\ last' = NoCall
  /\ UNCHANGED <<dom, val, winSize, pageSize, windows, active, alert>>

TakeElementScreenshotReturns(outcome, fail) ==
  /\ pending # Idle
  /\ pending.op = "take_element_screenshot"
  /\ outcome \in WaitOutcomes(pending)
  /\ LET p == pending
         r == FindElementResult(p, outcome)
     IN IF r.status # "ok"
        THEN /\ ~fail
             /\ last' = Call("take_element_screenshot", p.sel, p.arg,
                             ElementScreenshotStatus(r.status), r.status,
                             None, NoMsg,
                             <<>>, r.printed \o ScreenshotPrinted, None,
                             Waited(p), Snapshot)
        ELSE IF fail
        THEN last' = Call("take_element_screenshot", p.sel, p.arg,
                          ElementScreenshotStatus("WebDriverException"),
                          "WebDriverException", None, NoMsg, <<"screenshot">>, ScreenshotPrinted, r.elem,
                          Waited(p), Snapshot)
        ELSE last' = Call("take_element_screenshot", p.sel, p.arg, "ok",
                          "none", None, NoMsg, <<"screenshot">>, <<>>, r.elem, Waited(p),
                          Snapshot)
  /\ pending' = Idle
  /\ UNCHANGED <<dom, val, winSize, pageSize, windows, active, alert>>

---------------------------------------------------------------------------
(* is_element_present *)

IsElementPresent(sel) ==
  /\ pending = Idle
  /\ last' = Call("is_element_present", sel, NoArg, "ok", "none",
                  Present(dom, sel),
                  NoMsg, <<"find_element">>, <<>>, None, NoArg, Snapshot)
  /\ UNCHANGED <<dom, val, winSize, pageSize, windows, active, alert, pending>>

---------------------------------------------------------------------------
(* take_full_page_screenshot *)

\* driver.set_window_size(width, height)
SetWindowSize(width, height) == [width |-> width, height |-> height]

\* The driver commands of take_full_page_screenshot, in the order issued.
FullPageSteps ==
  <<"get_window_size", "scrollWidth", "scrollHeight", "set_window_size",
    "save_screenshot", "restore_window_size">>

FailPoints == 0..Len(FullPageSteps)

\* Variant: width and height exchanged in the restore.
RestoredSwapped(original) == SetWindowSize(original.height, original.width)

\* driver.set_window_size(original_size["width"], original_size["height"])
RestoredSize(original) == SetWindowSize(original.width, original.height)

\* Variant: the restore in a finally clause.
FullPageSizeFinally(original, page, failAt) ==
  IF failAt = 6 THEN SetWindowSize(page.width, page.height)
  ELSE RestoredSize(original)

\* The window size take_full_page_screenshot leaves behind when the driver
\* fails at step failAt of FullPageSteps (0: at no step).  A command that
\* fails has no effect, and the commands after it are not issued.
FullPageSize(original, page, failAt) ==
  IF failAt = 0 THEN RestoredSize(original)
  ELSE IF failAt >= 5 THEN SetWindowSize(page.width, page.height)
  ELSE original

\* Variant: the except clause without its raise.
FullPageStatusSwallowed(raised) == "ok"

\* What reaches the caller of take_full_page_screenshot when its try block
\* raised: the except clause prints and raises again.
FullPageStatus(raised) == IF raised = "none" THEN "ok" ELSE raised

TakeFullPageScreenshot(failAt) ==
  /\ pending = Idle
  /\ winSize' = FullPageSize(winSize, pageSize, failAt)
  /\ last' = Call("take_full_page_screenshot", NoArg, failAt,
                  FullPageStatus(IF failAt = 0 THEN "none"
                                 ELSE "WebDriverException"),
                  IF failAt = 0 THEN "none" ELSE "WebDriverException",
                  None, NoMsg,
                  IF failAt = 0 THEN FullPageSteps
                  ELSE SubSeq(FullPageSteps, 1, failAt),
                  IF failAt = 0 THEN <<>> ELSE ScreenshotPrinted,
                  None, NoArg, Snapshot)
  /\ UNCHANGED <<dom, val, pageSize, windows, active, alert, pending>>

---------------------------------------------------------------------------
(* Windows and alerts *)

WindowOpened(h) ==
  /\ Len(windows) < MaxWindows
  /\ \A i \in 1..Len(windows) : windows[i] # h
  /\ windows' = Append(windows, h)
  /\ last' = NoCall
  /\ UNCHANGED <<dom, val, winSize, pageSize, active, alert, pending>>

WindowClosed(i) ==
  /\ Len(windows) > 1
  /\ i \in 1..Len(windows)
  /\ windows' = SubSeq(windows, 1, i - 1) \o SubSeq(windows, i + 1, Len(windows))
  /\ last' = NoCall
  /\ UNCHANGED <<dom, val, winSize, pageSize, active, alert, pending>>

AlertOpened(text) ==
  /\ alert = NoAlert
  /\ alert' = text
  /\ last' = NoCall
  /\ UNCHANGED <<dom, val, winSize, pageSize, windows, active, pending>>

\* Variant: positions counted from 1, no negative index.
PyIndexFromOne(seq, i) ==
  IF 0 <= i /\ i <= Len(seq) /\ Len(seq) > 0
  THEN [found |-> TRUE, item |-> seq[IF i = 0 THEN 1 ELSE i]]
  ELSE [found |-> FALSE, item |-> None]

\* windows[index] on a Python list: positions count from 0, a negative
\* index counts from the end, anything else is an IndexError.
PyIndex(seq, i) ==
  IF 0 <= i /\ i < Len(seq) THEN [found |-> TRUE, item |-> seq[i + 1]]
  ELSE IF i < 0 /\ 0 - i <= Len(seq)
  THEN [found |-> TRUE, item |-> seq[Len(seq) + i + 1]]
  ELSE [found |-> FALSE, item |-> None]

\* The message of the NoSuchWindowException (the source's text is Japanese:
\* "the window of index {index} is not found").
NoWindowMsg(index) == <<"index ", ToString(index), " window not found">>

SwitchToWindow(index) ==
  /\ pending = Idle
  /\ LET w == PyIndex(windows, index) IN
     IF w.found
     THEN /\ active' = w.item
          /\ last' = Call("switch_to_window", NoArg, index, "ok", "none",
                          None, NoMsg,
                          <<"window_handles", "switch_to.window">>, <<>>, None,
                          NoArg, Snapshot)
     ELSE /\ active' = active
          /\ last' = Call("switch_to_window", NoArg, index,
                          "NoSuchWindowException", "IndexError", None,
                          NoWindowMsg(index),
                          <<"window_handles">>, <<>>, None, NoArg, Snapshot)
  /\ UNCHANGED <<dom, val, winSize, pageSize, windows, alert, pending>>

\* Variant: accept and dismiss exchanged.
AlertCommandSwapped(accept) == IF accept THEN "dismiss" ELSE "accept"

\* alert.accept() if accept, alert.dismiss() otherwise.
AlertCommand(accept) == IF accept THEN "accept" ELSE "dismiss"

\* The source prints a Japanese line: "there is no alert".
NoAlertPrinted == <<"no alert is present">>

HandleAlert(accept) ==
  /\ pending = Idle
  /\ IF alert = NoAlert
     THEN /\ alert' = alert
          /\ last' = Call("handle_alert", NoArg, accept,
                          "NoAlertPresentException",
                          "NoAlertPresentException", None, NoMsg,
                          <<"switch_to.alert">>, NoAlertPrinted, None, NoArg,
                          Snapshot)
     ELSE /\ alert' = NoAlert
          /\ last' = Call("handle_alert", NoArg, accept, "ok", "none", alert,
                          NoMsg,
                          <<"switch_to.alert", "text", AlertCommand(accept)>>,
                          <<>>, None, NoArg, Snapshot)
  /\ UNCHANGED <<dom, val, winSize, pageSize, windows, active, pending>>

---------------------------------------------------------------------------
(* Specifications *)

\* A step of the caller's thread while a wait is in progress, the driver
\* not failing: the wait sleeps, or it ends and the helper runs on.
WaitStep ==
  \/ WaitSleep
  \/ \E outcome \in {"located", "timeout"} :
       \/ FindElementReturns(outcome)
       \/ \E failAt \in {"none", "clear", "send_keys"} :
            InputTextReturns(outcome, failAt)
       \/ \E fail \in BOOLEAN : SelectFromDropdownReturns(outcome, fail)
       \/ \E fail \in BOOLEAN : TakeElementScreenshotReturns(outcome, fail)

DriverFails ==
  \/ FindElementReturns("error")
  \/ InputTextReturns("error", "none")
  \/ SelectFromDropdownReturns("error", FALSE)
  \/ TakeElementScreenshotReturns("error", FALSE)

PageChanges ==
  \E sel \in Selectors :
    \/ \E v \in Texts \cup Options, shown \in BOOLEAN :
         ElementAdded(sel, v, shown)
    \/ ElementRemoved(sel)
    \/ ElementToggled(sel)

DomNext ==
  \/ \E sel \in Selectors, timeout \in Timeouts : FindElement(sel, timeout)
  \/ \E sel \in Selectors, text \in Keys : InputText(sel, text)
  \/ \E sel \in Selectors, text \in OptionTexts : SelectFromDropdown(sel, text)
  \/ \E sel \in Selectors : TakeElementScreenshot(sel)
  \/ \E sel \in Selectors : IsElementPresent(sel)
  \/ \E failAt \in FailPoints : TakeFullPageScreenshot(failAt)
  \/ WaitStep
  \/ DriverFails
  \/ PageChanges

SessionNext ==
  \/ \E index \in Indexes : SwitchToWindow(index)
  \/ \E accept \in BOOLEAN : HandleAlert(accept)
  \/ \E h \in Handles : WindowOpened(h)
  \/ \E i \in 1..MaxWindows : WindowClosed(i)
  \/ \E text \in AlertTexts : AlertOpened(text)

DomSpec == Init /\ [][DomNext]_vars

SessionSpec == Init /\ [][SessionNext]_vars

\* The caller calls find_element only, and its thread runs: blocked in
\* find_element, it goes on with the wait (the driver is not bound to fail).
FindStep ==
  \/ WaitSleep
  \/ \E outcome \in {"located", "timeout"} : FindElementReturns(outcome)

FindNext ==
  \/ \E sel \in Selectors, timeout \in Timeouts : FindElement(sel, timeout)
  \/ FindStep
  \/ FindElementReturns("error")
  \/ PageChanges

FindSpec == Init /\ [][FindNext]_vars /\ WF_vars(FindStep)

---------------------------------------------------------------------------
(* Properties *)

Contains(seq, x) == \E i \in 1..Len(seq) : seq[i] = x

Before(seq, x, y) ==
  \E i, j \in 1..Len(seq) : i < j /\ seq[i] = x /\ seq[j] = y

PageSizeOf(snap) == [width |-> snap.pageSize.width, height |-> snap.pageSize.height]

LocatingOps ==
  {"find_element", "input_text", "select_from_dropdown", "take_element_screenshot"}

\* C1: switch_to_window(driver, i) with 0 <= i < number of open windows
\* returns normally and makes the i-th window handle (counting from 0) the
\* active window; with i >= number of open windows it raises
\* NoSuchWindowException and the active window stays what it was.
C1_SwitchToWindowByIndex ==
  last.op = "switch_to_window" =>
    LET i == last.arg
        n == Len(last.pre.windows)
    IN /\ (0 <= i /\ i < n) =>
            /\ last.status = "ok"
            /\ active = last.pre.windows[i + 1]
       /\ i >= n =>
            /\ last.status = "NoSuchWindowException"
            /\ active = last.pre.active

\* A switch by an index in range that changed the active window.
C1_Witness ==
  /\ last.op = "switch_to_window"
  /\ last.arg = 1
  /\ Len(last.pre.windows) = 2
  /\ last.status = "ok"
  /\ active = last.pre.windows[2]
  /\ active # last.pre.active

\* C2: switch_to_window raises NoSuchWindowException for every index that
\* is not one of the positions 0..count-1, negative indices included, and
\* the active window does not change in any of these cases.
C2_EveryIndexOutOfRangeFails ==
  last.op = "switch_to_window" =>
    LET i == last.arg
        n == Len(last.pre.windows)
    IN ~(0 <= i /\ i < n) =>
         /\ last.status = "NoSuchWindowException"
         /\ active = last.pre.active

\* C3: whenever take_full_page_screenshot returns normally, the window has
\* the width and height it had before the call, although the window was
\* resized to the page's scroll size before the capture.
C3_FullPageRestoresSize ==
  (last.op = "take_full_page_screenshot" /\ last.status = "ok") =>
    /\ winSize.width = last.pre.winSize.width
    /\ winSize.height = last.pre.winSize.height
    /\ Before(last.log, "set_window_size", "save_screenshot")
    /\ Before(last.log, "save_screenshot", "restore_window_size")

\* A full-page screenshot that returned normally on a page whose scroll
\* size differs from the window size.
C3_Witness ==
  /\ last.op = "take_full_page_screenshot"
  /\ last.status = "ok"
  /\ last.pre.pageSize # last.pre.winSize
  /\ winSize = last.pre.winSize

FindElementOutcomeOk ==
  last.op = "find_element" =>
    \/ /\ last.status = "ok"
       /\ last.ret = last.sel
       /\ last.pre.dom[last.sel] = "visible"
    \/ /\ last.status = "TimeoutException"
       /\ last.waited.elapsed > last.waited.timeout
       /\ last.pre.dom[last.sel] # "visible"
       /\ Contains(last.msg, ToString(last.waited.timeout))
       /\ Contains(last.msg, last.sel[1])
       /\ Contains(last.msg, last.sel[2])
    \/ last.status = "WebDriverException"

\* C5: find_element never blocks for ever: every call in progress
\* eventually returns a visible element or fails, and a wait that expired
\* fails with TimeoutException whose message holds the timeout and the
\* selector.
C5_FindElementEnds ==
  /\ []FindElementOutcomeOk
  /\ (pending # Idle /\ pending.op = "find_element")
       ~> (pending = Idle /\ last.op = "find_element")

\* A find_element whose wait of one second expired.
C5_Witness ==
  /\ last.op = "find_element"
  /\ last.status = "TimeoutException"
  /\ last.waited.timeout = 1
  /\ last.waited.elapsed = 2

\* C6: is_element_present returns True for a selector that matches an
\* element of the page, False (and no error) for one that matches none, and
\* changes nothing in the page or the session.
C6_IsElementPresent ==
  last.op = "is_element_present" =>
    /\ last.status = "ok"
    /\ last.ret = (last.pre.dom[last.sel] \in {"hidden", "visible"})
    /\ Snapshot = last.pre

\* is_element_present answering True for an element that is not displayed.
C6_Witness ==
  /\ last.op = "is_element_present"
  /\ last.pre.dom[last.sel] = "hidden"
  /\ last.ret = TRUE

\* C7: after a successful input_text(driver, by, value, t) the element
\* holds exactly t whatever it held before, and clear was issued before
\* send_keys.
C7_InputTextReplaces ==
  (last.op = "input_text" /\ last.status = "ok") =>
    /\ val[last.sel] = last.arg
    /\ last.log = <<"clear", "send_keys">>

\* A successful input_text on an element that held another, non-empty text.
C7_Witness ==
  /\ last.op = "input_text"
  /\ last.status = "ok"
  /\ last.pre.val[last.sel] # <<>>
  /\ last.pre.val[last.sel] # last.arg
  /\ val[last.sel] = last.arg

\* C8: with an alert displayed, handle_alert reads the alert's text, then
\* accepts it if accept is true and dismisses it otherwise, returns the text
\* and leaves no alert; with none displayed it raises
\* NoAlertPresentException and neither accepts nor dismisses.
C8_HandleAlert ==
  last.op = "handle_alert" =>
    IF last.pre.alert # NoAlert
    THEN /\ last.status = "ok"
         /\ last.ret = last.pre.alert
         /\ Before(last.log, "text", IF last.arg THEN "accept" ELSE "dismiss")
         /\ ~Contains(last.log, IF last.arg THEN "dismiss" ELSE "accept")
         /\ alert = NoAlert
    ELSE /\ last.status = "NoAlertPresentException"
         /\ ~Contains(last.log, "accept")
         /\ ~Contains(last.log, "dismiss")
         /\ alert = NoAlert

\* An alert dismissed by handle_alert(driver, False).
C8_Witness ==
  /\ last.op = "handle_alert"
  /\ last.arg = FALSE
  /\ last.pre.alert = "Delete?"
  /\ last.ret = "Delete?"
  /\ Contains(last.log, "dismiss")
  /\ alert = NoAlert

\* C9: when the capture step of take_full_page_screenshot fails, the
\* window having been resized, the restore step is not issued and the
\* window keeps the page's scroll size; a failure before the resize step
\* leaves the window size as it was.
C9_FullPageNotAtomic ==
  last.op = "take_full_page_screenshot" =>
    /\ last.arg = 5 =>
         /\ winSize = PageSizeOf(last.pre)
         /\ Contains(last.log, "set_window_size")
         /\ ~Contains(last.log, "restore_window_size")
         /\ last.status # "ok"
    /\ last.arg \in 1..3 =>
         /\ winSize = last.pre.winSize
         /\ ~Contains(last.log, "set_window_size")

\* A failed capture that left the window at a size it did not have before.
C9_Witness ==
  /\ last.op = "take_full_page_screenshot"
  /\ last.arg = 5
  /\ winSize # last.pre.winSize
  /\ winSize = PageSizeOf(last.pre)

\* C10: is_element_present answers True for an element that is in the page
\* but not displayed, while find_element, and each helper that locates
\* through it, locates an element only when it is displayed: a wait in
\* which the element was present but hidden at every poll locates nothing
\* and (the driver not failing) ends in TimeoutException after the timeout.
C10_PresentIsNotLocated ==
  /\ (last.op = "is_element_present" /\ last.pre.dom[last.sel] = "hidden")
       => last.ret = TRUE
  /\ last.op \in LocatingOps =>
       /\ last.elem # None => last.pre.dom[last.sel] = "visible"
       /\ last.waited.hiddenAll =>
            /\ last.elem = None
            /\ last.raised \in {"TimeoutException", "WebDriverException"}
            /\ last.raised = "TimeoutException" =>
                 last.waited.elapsed > last.waited.timeout
       /\ (last.op = "find_element" /\ last.raised = "TimeoutException")
            => last.status = "TimeoutException"

\* find_element timing out on an element that was in the page, hidden, at
\* every poll of the wait.
C10_Witness ==
  /\ last.op = "find_element"
  /\ last.waited.hiddenAll
  /\ last.waited.elapsed > 0
  /\ last.status = "TimeoutException"

====
